---- MODULE Spec2Model ----
(***************************************************************************)
(* GPIO-controlled power domain (drivers/power_domain/power_domain_gpio.c). *)
(*                                                                         *)
(* One domain instance: an enable pin, two configured delays, the stored   *)
(* absolute deadline next_boot, and an ordered list of supported devices.  *)
(* The driver's action handler pd_gpio_pm_action blocks in k_sleep, so it   *)
(* is modelled as a sequence of steps between which the tick clock may     *)
(* advance.  The PM core, the kernel sleep, the GPIO port and the child    *)
(* fan-out live outside this file and are modelled from the design text.   *)
(***************************************************************************)
EXTENDS Integers, Sequences, FiniteSets, TLC

(* ------------------------------ bounds -------------------------------- *)

\* number of supported (child) devices registered against the domain
NumDeps == 2
\* the tick clock is explored up to this uptime
MaxTime == 4
\* configured delays are drawn from { k half-ticks : k in 0..MaxDelayHalfTicks }
MaxDelayHalfTicks == 2

(* ------------------------- clock and conversions ----------------------- *)

USEC_PER_SEC == 1000000
CONFIG_SYS_CLOCK_TICKS_PER_SEC == 10000

\* k_us_to_ticks_ceil32: microseconds to ticks, rounded up.  The result is a
\* uint32_t; every delay explored here converts to far fewer than 2^32 ticks,
\* so the truncation to 32 bits leaves it as it is.
k_us_to_ticks_ceil32(us) ==
    (us * CONFIG_SYS_CLOCK_TICKS_PER_SEC + (USEC_PER_SEC - 1)) \div USEC_PER_SEC

\* k_us_to_ticks_ceil64: the same conversion with a 64-bit result
k_us_to_ticks_ceil64(us) ==
    (us * CONFIG_SYS_CLOCK_TICKS_PER_SEC + (USEC_PER_SEC - 1)) \div USEC_PER_SEC

\* K_TIMEOUT_ABS_TICKS(t): an absolute deadline, in ticks of uptime
K_TIMEOUT_ABS_TICKS(t) == IF t < 0 THEN 0 ELSE t

\* K_TIMEOUT_ABS_US(us): an absolute deadline us microseconds after uptime 0
K_TIMEOUT_ABS_US(us) == K_TIMEOUT_ABS_TICKS(k_us_to_ticks_ceil64(us))

\* K_USEC(us): a relative timeout, in ticks
K_USEC(us) == k_us_to_ticks_ceil64(IF us < 0 THEN 0 ELSE us)

\* a tick count read back as microseconds of uptime
ticks_to_us(t) == (t * USEC_PER_SEC) \div CONFIG_SYS_CLOCK_TICKS_PER_SEC

DelayChoices ==
    { (k * USEC_PER_SEC) \div (2 * CONFIG_SYS_CLOCK_TICKS_PER_SEC) :
        k \in 0..MaxDelayHalfTicks }

Deps == 1..NumDeps

(* ------------------------------ actions -------------------------------- *)

PM_DEVICE_ACTION_SUSPEND == "SUSPEND"
PM_DEVICE_ACTION_RESUME == "RESUME"
PM_DEVICE_ACTION_TURN_OFF == "TURN_OFF"
PM_DEVICE_ACTION_TURN_ON == "TURN_ON"
\* an action value the handler's switch has no case for
PM_DEVICE_ACTION_OTHER == "OTHER"

PmActions ==
    { PM_DEVICE_ACTION_SUSPEND, PM_DEVICE_ACTION_RESUME,
      PM_DEVICE_ACTION_TURN_OFF, PM_DEVICE_ACTION_TURN_ON,
      PM_DEVICE_ACTION_OTHER }

(* ------------------------------ GPIO port ------------------------------ *)

GPIO_DISCONNECTED == {}
GPIO_OUTPUT_INACTIVE == {"GPIO_OUTPUT", "GPIO_OUTPUT_INIT_LOW"}
GPIO_OUTPUT_ACTIVE == {"GPIO_OUTPUT", "GPIO_OUTPUT_INIT_HIGH"}
GPIO_DS_ALT == {"GPIO_DS_ALT"}

\* gpio_pin_configure_dt: the pin after configuring it with flags
gpio_pin_configure_dt(p, flags) ==
    [mode   |-> IF "GPIO_OUTPUT" \in flags THEN "OUTPUT" ELSE "DISCONNECTED",
     level  |-> IF "GPIO_OUTPUT_INIT_LOW" \in flags THEN 0
                ELSE IF "GPIO_OUTPUT_INIT_HIGH" \in flags THEN 1
                ELSE p.level,
     ds_alt |-> "GPIO_DS_ALT" \in flags]

\* gpio_pin_set_dt: the pin after writing its logical output level
gpio_pin_set_dt(p, value) == [p EXCEPT !.level = value]

PinStates ==
    [mode : {"DISCONNECTED", "OUTPUT"}, level : {0, 1}, ds_alt : BOOLEAN]

\* the rail is energized when the pin is a driven output at the active level
Energized(p) == p.mode = "OUTPUT" /\ p.level = 1

(* ------------------------------- state --------------------------------- *)

VARIABLES
    cfg,         \* struct pd_gpio_config: startup_delay_us, off_on_delay_us, enable_high_drive
    next_boot,   \* struct pd_gpio_data: absolute tick deadline of the next permitted boot
    pin,         \* the enable pin: mode, output level, drive-strength flag
    now,         \* k_uptime_ticks()
    pm_state,    \* the PM core's record of the domain's state
    pc,          \* where the calling thread is inside pd_gpio_init / pd_gpio_pm_action
    child_idx,   \* next supported device the fan-out will visit
    wake_at,     \* tick at which the running relative k_sleep expires
    req,         \* the request being served, or the last one served
    rc,          \* return code of the last finished call
    notify_log,  \* notifications delivered to supported devices by the current request
    dep_last,    \* last notification each supported device received
    hist         \* history: when the pin was last switched, when SUSPEND read the clock

vars ==
    <<cfg, next_boot, pin, now, pm_state, pc, child_idx, wake_at, req, rc,
      notify_log, dep_last, hist>>

NoTime == 0 - 1

Init ==
    /\ cfg \in [startup_delay_us  : DelayChoices,
                off_on_delay_us   : DelayChoices,
                enable_high_drive : BOOLEAN]
    /\ next_boot = 0
    /\ pin \in [mode : {"DISCONNECTED", "OUTPUT"}, level : {0, 1}, ds_alt : {FALSE}]
    /\ now = 0
    /\ pm_state = "UNINIT"
    /\ pc = "boot"
    /\ child_idx = 1
    /\ wake_at = 0
    /\ req = [action |-> "NONE", can_yield |-> TRUE, at |-> 0, from |-> "UNINIT"]
    /\ rc = "NONE"
    /\ notify_log = <<>>
    /\ dep_last = [d \in Deps |-> "NONE"]
    /\ hist = [pin_active_at   |-> NoTime,
               pin_inactive_at |-> NoTime,
               suspend_at      |-> NoTime,
               suspends        |-> 0,
               ever_active     |-> FALSE,
               active_by       |-> "NONE"]

(* ---------------------------- kernel services --------------------------- *)

\* k_can_yield() is an input of every request: the calling context
Contexts == BOOLEAN

\* k_sleep on an absolute deadline returns once uptime has reached it
k_sleep_abs_expired(deadline) == now >= deadline

\* k_sleep on a relative timeout started at tick t returns once it has elapsed
k_sleep_rel_deadline(t, ticks) == t + ticks

\* the system clock advances by one tick
Tick ==
    /\ pc # "failed"
    /\ now < MaxTime
    /\ now' = now + 1
    /\ UNCHANGED <<cfg, next_boot, pin, pm_state, pc, child_idx, wake_at, req, rc,
                   notify_log, dep_last, hist>>

(* ------------------------ supported-device fan-out ---------------------- *)

\* pm_device_children_action_run visits the supported devices in registration
\* order, one call each; a device's own result is not looked at
pm_device_children_action_run_step(action) ==
    /\ child_idx <= NumDeps
    /\ \E ok \in BOOLEAN :
        notify_log' = Append(notify_log,
                             [dev |-> child_idx, action |-> action,
                              at |-> now, ok |-> ok])
    /\ dep_last' = [dep_last EXCEPT ![child_idx] = action]
    /\ child_idx' = child_idx + 1

pm_device_children_action_run_done == child_idx > NumDeps

(* ------------------------------ PM core --------------------------------- *)

\* faulty variant: the state check lets RESUME and TURN_OFF through while ON
action_expected_state_lax(action) ==
    CASE action = PM_DEVICE_ACTION_TURN_ON  -> {"DISCONNECTED"}
      [] action = PM_DEVICE_ACTION_TURN_OFF -> {"DRIVEN_OFF", "DISCONNECTED", "ON"}
      [] action = PM_DEVICE_ACTION_RESUME   -> {"DRIVEN_OFF", "ON"}
      [] action = PM_DEVICE_ACTION_SUSPEND  -> {"ON"}
      [] OTHER -> {"DISCONNECTED", "DRIVEN_OFF", "ON"}

\* the states an action may be requested in (design table of transitions)
action_expected_state(action) ==
    CASE action = PM_DEVICE_ACTION_TURN_ON  -> {"DISCONNECTED"}
      [] action = PM_DEVICE_ACTION_TURN_OFF -> {"DRIVEN_OFF", "DISCONNECTED"}
      [] action = PM_DEVICE_ACTION_RESUME   -> {"DRIVEN_OFF"}
      [] action = PM_DEVICE_ACTION_SUSPEND  -> {"ON"}
      [] OTHER -> {"DISCONNECTED", "DRIVEN_OFF", "ON"}

\* the state an accepted action leaves the domain in
action_target_state(action, from) ==
    CASE action = PM_DEVICE_ACTION_TURN_ON  -> "DRIVEN_OFF"
      [] action = PM_DEVICE_ACTION_TURN_OFF -> "DISCONNECTED"
      [] action = PM_DEVICE_ACTION_RESUME   -> "ON"
      [] action = PM_DEVICE_ACTION_SUSPEND  -> "DRIVEN_OFF"
      [] OTHER -> from

\* the handler returned ret to the PM core, which records the new state on success
pm_device_action_run_return(action, ret) ==
    /\ rc' = ret
    /\ pc' = "idle"
    /\ pm_state' = IF ret = "OK" THEN action_target_state(action, pm_state)
                   ELSE pm_state

\* what the history records when the pin goes from p to q at tick t while the
\* call named by is being served
Observe(h, p, q, t, by) ==
    [h EXCEPT !.ever_active     = @ \/ Energized(q),
              !.active_by       = IF Energized(q) /\ ~Energized(p) THEN by ELSE @,
              !.pin_active_at   = IF Energized(q) /\ ~Energized(p) THEN t ELSE @,
              !.pin_inactive_at = IF Energized(p) /\ ~Energized(q) THEN t ELSE @]

(* ---------------------------- pd_gpio_pm_action -------------------------- *)

\* faulty variant: TURN_ON forgets the drive-strength flag
pd_gpio_turn_on_flags_no_ds(c) == GPIO_OUTPUT_INACTIVE

\* faulty variant: TURN_ON configures the pin as an output at the active level
pd_gpio_turn_on_flags_active(c) ==
    GPIO_OUTPUT_ACTIVE \cup (IF c.enable_high_drive THEN GPIO_DS_ALT ELSE {})

\* TURN_ON: the flags the enable pin is configured with
pd_gpio_turn_on_flags(c) ==
    GPIO_OUTPUT_INACTIVE \cup (IF c.enable_high_drive THEN GPIO_DS_ALT ELSE {})

\* TURN_ON: actively control the enable pin
pd_gpio_turn_on(p, c) == gpio_pin_configure_dt(p, pd_gpio_turn_on_flags(c))

\* faulty variant: TURN_OFF configures the pin the way TURN_ON does
pd_gpio_turn_off_driven(p) == gpio_pin_configure_dt(p, GPIO_OUTPUT_INACTIVE)

\* TURN_OFF: let the enable pin float
pd_gpio_turn_off(p) == gpio_pin_configure_dt(p, GPIO_DISCONNECTED)

\* faulty variant: the stored deadline is slept on as a duration from now
pd_gpio_resume_deadline_relative == req.at + next_boot

\* faulty variant: the cooldown sleep is given a deadline that never comes
pd_gpio_resume_deadline_never == MaxTime + 1

\* RESUME: the deadline the first k_sleep waits for
pd_gpio_resume_deadline == next_boot

\* faulty variant: the settle sleep is given the other delay of the configuration
pd_gpio_resume_startup_ticks_off_on == K_USEC(cfg.off_on_delay_us)

\* RESUME: the relative timeout of the second k_sleep, in ticks
pd_gpio_resume_startup_ticks == K_USEC(cfg.startup_delay_us)

\* faulty variant: the delay is left out of the stored deadline
pd_gpio_suspend_next_boot_ticks_nodelay == now

\* faulty variant: the deadline is counted from the arrival of the request
pd_gpio_suspend_next_boot_ticks_at_request ==
    req.at + k_us_to_ticks_ceil32(cfg.off_on_delay_us)

\* SUSPEND: next_boot_ticks as computed from the clock
pd_gpio_suspend_next_boot_ticks ==
    now + k_us_to_ticks_ceil32(cfg.off_on_delay_us)

\* faulty variant: the switch has no default case and rc keeps its initial 0
pd_gpio_default_rc_zero == "OK"

\* default: the return code for an action the switch does not know
pd_gpio_default_rc == "ENOTSUP"

\* faulty variant: the handler runs whatever the context
pd_gpio_can_block_always(can_yield) == TRUE

\* the blocking-API check at the head of the handler
pd_gpio_can_block(can_yield) == can_yield

\* entry of the handler up to its first blocking call or its return
pd_gpio_pm_action(action, can_yield) ==
    IF ~pd_gpio_can_block(can_yield)
    THEN /\ pm_device_action_run_return(action, "ENOTSUP")
         /\ UNCHANGED <<next_boot, pin, child_idx, wake_at, dep_last, hist>>
    ELSE CASE action = PM_DEVICE_ACTION_RESUME ->
                /\ pc' = "resume_cooldown"
                /\ rc' = "PENDING"
                /\ UNCHANGED <<next_boot, pin, pm_state, child_idx, wake_at,
                               dep_last, hist>>
           [] action = PM_DEVICE_ACTION_SUSPEND ->
                /\ pc' = "suspend_notify"
                /\ rc' = "PENDING"
                /\ child_idx' = 1
                /\ UNCHANGED <<next_boot, pin, pm_state, wake_at, dep_last, hist>>
           [] action = PM_DEVICE_ACTION_TURN_ON ->
                /\ pin' = pd_gpio_turn_on(pin, cfg)
                /\ hist' = Observe(hist, pin, pin', now, action)
                /\ pm_device_action_run_return(action, "OK")
                /\ UNCHANGED <<next_boot, child_idx, wake_at, dep_last>>
           [] action = PM_DEVICE_ACTION_TURN_OFF ->
                /\ pin' = pd_gpio_turn_off(pin)
                /\ hist' = Observe(hist, pin, pin', now, action)
                /\ pm_device_action_run_return(action, "OK")
                /\ UNCHANGED <<next_boot, child_idx, wake_at, dep_last>>
           [] OTHER ->
                /\ pm_device_action_run_return(action, pd_gpio_default_rc)
                /\ UNCHANGED <<next_boot, pin, child_idx, wake_at, dep_last, hist>>

\* RESUME: the cooldown sleep has returned; switch power on, start the settle sleep
ResumeSwitchOn ==
    /\ pc = "resume_cooldown"
    /\ k_sleep_abs_expired(pd_gpio_resume_deadline)
    /\ pin' = gpio_pin_set_dt(pin, 1)
    /\ hist' = Observe(hist, pin, pin', now, req.action)
    /\ wake_at' = k_sleep_rel_deadline(now, pd_gpio_resume_startup_ticks)
    /\ pc' = "resume_startup"
    /\ child_idx' = 1
    /\ UNCHANGED <<cfg, next_boot, now, pm_state, req, rc, notify_log, dep_last>>

\* faulty variant: RESUME tells the supported devices TURN_OFF
ResumeNotify_turn_off ==
    /\ pc = "resume_startup"
    /\ k_sleep_abs_expired(wake_at)
    /\ pm_device_children_action_run_step(PM_DEVICE_ACTION_TURN_OFF)
    /\ UNCHANGED <<cfg, next_boot, pin, now, pm_state, pc, wake_at, req, rc, hist>>

\* RESUME: the settle sleep has returned; notify the supported devices
ResumeNotify ==
    /\ pc = "resume_startup"
    /\ k_sleep_abs_expired(wake_at)
    /\ pm_device_children_action_run_step(PM_DEVICE_ACTION_TURN_ON)
    /\ UNCHANGED <<cfg, next_boot, pin, now, pm_state, pc, wake_at, req, rc, hist>>

\* RESUME: break and return rc = 0
ResumeReturn ==
    /\ pc = "resume_startup"
    /\ k_sleep_abs_expired(wake_at)
    /\ pm_device_children_action_run_done
    /\ pm_device_action_run_return(req.action, "OK")
    /\ wake_at' = 0
    /\ UNCHANGED <<cfg, next_boot, pin, now, child_idx, req, notify_log,
                   dep_last, hist>>

\* SUSPEND: notify the supported devices that power is going down
SuspendNotify ==
    /\ pc = "suspend_notify"
    /\ pm_device_children_action_run_step(PM_DEVICE_ACTION_TURN_OFF)
    /\ UNCHANGED <<cfg, next_boot, pin, now, pm_state, pc, wake_at, req, rc, hist>>

\* faulty variant: power is switched off without waiting for the fan-out to end
SuspendSwitchOff_early ==
    /\ pc = "suspend_notify"
    /\ pin' = gpio_pin_set_dt(pin, 0)
    /\ hist' = Observe(hist, pin, pin', now, req.action)
    /\ pc' = "suspend_store"
    /\ UNCHANGED <<cfg, next_boot, now, pm_state, child_idx, wake_at, req, rc,
                   notify_log, dep_last>>

\* faulty variant: the deadline is also armed while switching off, a second write
SuspendSwitchOff_arms_deadline ==
    /\ pc = "suspend_notify"
    /\ pm_device_children_action_run_done
    /\ pin' = gpio_pin_set_dt(pin, 0)
    /\ hist' = Observe(hist, pin, pin', now, req.action)
    /\ next_boot' = K_TIMEOUT_ABS_TICKS(now + k_us_to_ticks_ceil32(cfg.off_on_delay_us))
    /\ pc' = "suspend_store"
    /\ UNCHANGED <<cfg, now, pm_state, child_idx, wake_at, req, rc, notify_log,
                   dep_last>>

\* faulty variant: SUSPEND gives up with an error when a supported device failed
SuspendSwitchOff_abort_on_failure ==
    /\ pc = "suspend_notify"
    /\ pm_device_children_action_run_done
    /\ IF \E i \in DOMAIN notify_log : ~notify_log[i].ok
       THEN /\ pm_device_action_run_return(req.action, "EIO")
            /\ UNCHANGED <<pin, hist>>
       ELSE /\ pin' = gpio_pin_set_dt(pin, 0)
            /\ hist' = Observe(hist, pin, pin', now, req.action)
            /\ pc' = "suspend_store"
            /\ UNCHANGED <<pm_state, rc>>
    /\ UNCHANGED <<cfg, next_boot, now, child_idx, wake_at, req, notify_log, dep_last>>

\* SUSPEND: switch power off
SuspendSwitchOff ==
    /\ pc = "suspend_notify"
    /\ pm_device_children_action_run_done
    /\ pin' = gpio_pin_set_dt(pin, 0)
    /\ hist' = Observe(hist, pin, pin', now, req.action)
    /\ pc' = "suspend_store"
    /\ UNCHANGED <<cfg, next_boot, now, pm_state, child_idx, wake_at, req, rc,
                   notify_log, dep_last>>

\* SUSPEND: read the clock, store the next time we can boot, return rc = 0
SuspendStore ==
    /\ pc = "suspend_store"
    /\ next_boot' = K_TIMEOUT_ABS_TICKS(pd_gpio_suspend_next_boot_ticks)
    /\ hist' = [hist EXCEPT !.suspend_at = now,
                             !.suspends = IF @ < 2 THEN @ + 1 ELSE @]
    /\ pm_device_action_run_return(req.action, "OK")
    /\ UNCHANGED <<cfg, pin, now, child_idx, wake_at, req, notify_log, dep_last>>

(* ------------------------------- requests -------------------------------- *)

\* the single entry point: the PM core checks the state, then calls the handler
pm_device_action_run(action, can_yield) ==
    /\ pc = "idle"
    /\ req' = [action |-> action, can_yield |-> can_yield, at |-> now,
               from |-> pm_state]
    /\ notify_log' = <<>>
    /\ UNCHANGED <<cfg, now>>
    /\ IF pm_state \notin action_expected_state(action)
       THEN /\ rc' = "ENOTSUP"
            /\ UNCHANGED <<next_boot, pin, pm_state, pc, child_idx, wake_at,
                           dep_last, hist>>
       ELSE pd_gpio_pm_action(action, can_yield)

(* ------------------------------ pd_gpio_init ----------------------------- *)

\* faulty variant: the seed is counted from the time of initialization
pd_gpio_init_next_boot_relative ==
    K_TIMEOUT_ABS_TICKS(now + k_us_to_ticks_ceil64(cfg.off_on_delay_us))

\* faulty variant: the seed is left out and next_boot keeps its zero-initialized value
pd_gpio_init_next_boot_unseeded == next_boot

\* the deadline seeded at initialization
pd_gpio_init_next_boot == K_TIMEOUT_ABS_US(cfg.off_on_delay_us)

\* faulty variant: initialization configures the pin as an output at the active level
pd_gpio_init_pin_active(p) == gpio_pin_configure_dt(p, GPIO_OUTPUT_ACTIVE)

\* the pin after the handler call made by pd_gpio_init
pd_gpio_init_pin(p) == pd_gpio_turn_off(p)

\* pm_device_driver_init: the domain starts in its unpowered state
pm_device_driver_init_state == "DISCONNECTED"

\* the readiness a domain instance may find its parent power domain in
DomainStates == {"NONE", "READY", "NOT_READY"}

\* faulty variant: the parent domain is looked at before the port
pd_gpio_init_check_parent_first(port_ready, domain) ==
    IF domain = "NOT_READY" THEN "EINVAL"
    ELSE IF ~port_ready THEN "ENODEV"
    ELSE "OK"

\* the two device_is_ready checks at the head of pd_gpio_init, in their order
pd_gpio_init_check(port_ready, domain) ==
    IF ~port_ready THEN "ENODEV"
    ELSE IF domain = "NOT_READY" THEN "EINVAL"
    ELSE "OK"

\* pd_gpio_init, run once in a thread context; port_ready and domain are the
\* readiness of the enable pin's port and of the parent domain, if any
pd_gpio_init(port_ready, domain) ==
    /\ pc = "boot"
    /\ req' = [action |-> "INIT", can_yield |-> TRUE, at |-> now, from |-> pm_state]
    /\ UNCHANGED <<cfg, now, child_idx, wake_at, notify_log, dep_last>>
    /\ IF pd_gpio_init_check(port_ready, domain) # "OK"
       THEN /\ rc' = pd_gpio_init_check(port_ready, domain)
            /\ pc' = "failed"
            /\ UNCHANGED <<next_boot, pin, pm_state, hist>>
       ELSE /\ next_boot' = pd_gpio_init_next_boot
            /\ pin' = pd_gpio_init_pin(pin)
            /\ hist' = Observe(hist, pin, pin', now, "INIT")
            /\ pm_state' = pm_device_driver_init_state
            /\ rc' = "OK"
            /\ pc' = "idle"

(* ---------------------------- specification ------------------------------ *)

Next ==
    \/ \E port_ready \in BOOLEAN, domain \in DomainStates :
          pd_gpio_init(port_ready, domain)
    \/ \E action \in PmActions, can_yield \in Contexts :
          pm_device_action_run(action, can_yield)
    \/ ResumeSwitchOn
    \/ ResumeNotify
    \/ ResumeReturn
    \/ SuspendNotify
    \/ SuspendSwitchOff
    \/ SuspendStore
    \/ Tick

Spec == Init /\ [][Next]_vars

TypeOK ==
    /\ next_boot \in 0..(MaxTime + k_us_to_ticks_ceil64(ticks_to_us(MaxDelayHalfTicks)))
    /\ pin \in PinStates
    /\ now \in 0..MaxTime
    /\ pm_state \in {"UNINIT", "DISCONNECTED", "DRIVEN_OFF", "ON"}
    /\ pc \in {"boot", "failed", "idle", "resume_cooldown", "resume_startup",
               "suspend_notify", "suspend_store"}
    /\ child_idx \in 1..(NumDeps + 1)
    /\ rc \in {"NONE", "OK", "PENDING", "ENOTSUP", "ENODEV", "EINVAL"}
    /\ Len(notify_log) <= NumDeps

(* ------------------------------ properties ------------------------------ *)

Ready == pc \notin {"boot", "failed"}
Finished(action) == pc = "idle" /\ rc = "OK" /\ req.action = action

\* the state of the domain as the pin shows it
StateOfPin(p) ==
    IF p.mode = "DISCONNECTED" THEN "DISCONNECTED"
    ELSE IF p.level = 0 THEN "DRIVEN_OFF" ELSE "ON"

\* C1: between requests the domain is in one of DISCONNECTED, DRIVEN_OFF, ON,
\* the pin shows exactly that state, and every accepted action has moved it as
\* the transition table says: TURN_ON DISCONNECTED->DRIVEN_OFF, RESUME
\* DRIVEN_OFF->ON, SUSPEND ON->DRIVEN_OFF, TURN_OFF DRIVEN_OFF or
\* DISCONNECTED->DISCONNECTED.
C1_StateMachine ==
    pc = "idle" =>
        /\ pm_state \in {"DISCONNECTED", "DRIVEN_OFF", "ON"}
        /\ StateOfPin(pin) = pm_state
        /\ Finished(PM_DEVICE_ACTION_TURN_ON) =>
              req.from = "DISCONNECTED" /\ StateOfPin(pin) = "DRIVEN_OFF"
        /\ Finished(PM_DEVICE_ACTION_RESUME) =>
              req.from = "DRIVEN_OFF" /\ StateOfPin(pin) = "ON"
        /\ Finished(PM_DEVICE_ACTION_SUSPEND) =>
              req.from = "ON" /\ StateOfPin(pin) = "DRIVEN_OFF"
        /\ Finished(PM_DEVICE_ACTION_TURN_OFF) =>
              /\ req.from \in {"DRIVEN_OFF", "DISCONNECTED"}
              /\ StateOfPin(pin) = "DISCONNECTED"

\* a whole cycle has run: TURN_ON, RESUME, SUSPEND and then TURN_OFF from DRIVEN_OFF
C1_Witness ==
    /\ Finished(PM_DEVICE_ACTION_TURN_OFF)
    /\ req.from = "DRIVEN_OFF"
    /\ hist.suspends > 0

\* the states in which the claim says an action is refused
RefusedIn(action) ==
    CASE action = PM_DEVICE_ACTION_RESUME   -> {"ON", "DISCONNECTED"}
      [] action = PM_DEVICE_ACTION_SUSPEND  -> {"DRIVEN_OFF", "DISCONNECTED"}
      [] action = PM_DEVICE_ACTION_TURN_ON  -> {"DRIVEN_OFF", "ON"}
      [] action = PM_DEVICE_ACTION_TURN_OFF -> {"ON"}
      [] OTHER -> {}

\* a step that serves a new request for action
RequestStep(action) == pc = "idle" /\ now' = now /\ req'.action = action

\* C2: an action requested in a state that is not its precondition state is
\* rejected with ENOTSUP, and the pin configuration, the pin level, next_boot
\* and what the supported devices were last told are unchanged by the request.
C2_RejectedUnchanged ==
    [][\A action \in PmActions :
          (RequestStep(action) /\ pm_state \in RefusedIn(action)) =>
              /\ rc' = "ENOTSUP"
              /\ pc' = "idle"
              /\ pin' = pin
              /\ next_boot' = next_boot
              /\ dep_last' = dep_last
              /\ notify_log' = <<>>
              /\ pm_state' = pm_state]_vars

\* RESUME was asked for from a blockable context while already ON and refused
C2_Witness ==
    /\ pc = "idle"
    /\ rc = "ENOTSUP"
    /\ req.action = PM_DEVICE_ACTION_RESUME
    /\ req.can_yield
    /\ req.from = "ON"
    /\ Energized(pin)
    /\ \A d \in Deps : dep_last[d] = PM_DEVICE_ACTION_TURN_ON

\* C3: once a SUSPEND has completed at T, the pin is not driven active by a
\* later RESUME before T plus the off-on delay.
C3_CooldownLowerBound ==
    (Energized(pin) /\ hist.suspends > 0) =>
        ticks_to_us(hist.pin_active_at) >=
            ticks_to_us(hist.suspend_at) + cfg.off_on_delay_us

\* RESUME was requested in the very tick SUSPEND completed, with a delay to wait out
C3_Witness ==
    /\ Energized(pin)
    /\ hist.suspends > 0
    /\ req.action = PM_DEVICE_ACTION_RESUME
    /\ req.at = hist.suspend_at
    /\ cfg.off_on_delay_us > 0

\* C4: every TURN_ON a supported device receives in a RESUME comes while the
\* pin is active and no earlier than the startup delay after the pin was
\* driven active in that RESUME.
C4_StartupSettle ==
    \A i \in DOMAIN notify_log :
        notify_log[i].action = PM_DEVICE_ACTION_TURN_ON =>
            /\ Energized(pin)
            /\ hist.pin_active_at >= req.at
            /\ ticks_to_us(notify_log[i].at) >=
                   ticks_to_us(hist.pin_active_at) + cfg.startup_delay_us

\* all devices notified, the first exactly when the settle sleep expired
C4_Witness ==
    /\ Len(notify_log) = NumDeps
    /\ \A i \in DOMAIN notify_log : notify_log[i].action = PM_DEVICE_ACTION_TURN_ON
    /\ cfg.startup_delay_us > 0
    /\ notify_log[1].at = hist.pin_active_at + K_USEC(cfg.startup_delay_us)

\* the SUSPEND being served, or the last one served, got as far as the handler body
InSuspend ==
    /\ req.action = PM_DEVICE_ACTION_SUSPEND
    /\ req.can_yield
    /\ req.from = "ON"

\* C5: in a SUSPEND the pin stays active until every supported device has
\* received TURN_OFF, and the stored deadline is the off-on delay after a clock
\* reading taken no earlier than the moment the pin was driven inactive.
C5_SuspendOrdering ==
    InSuspend =>
        /\ ~Energized(pin) =>
              /\ hist.pin_inactive_at >= req.at
              /\ \A d \in Deps : \E i \in DOMAIN notify_log :
                    /\ notify_log[i].dev = d
                    /\ notify_log[i].action = PM_DEVICE_ACTION_TURN_OFF
                    /\ notify_log[i].at <= hist.pin_inactive_at
        /\ Finished(PM_DEVICE_ACTION_SUSPEND) =>
              /\ ~Energized(pin)
              /\ ticks_to_us(next_boot) >=
                    ticks_to_us(hist.pin_inactive_at) + cfg.off_on_delay_us

\* a SUSPEND finished whose pin went low later than the request arrived
C5_Witness ==
    /\ InSuspend
    /\ Finished(PM_DEVICE_ACTION_SUSPEND)
    /\ hist.pin_inactive_at > req.at
    /\ cfg.off_on_delay_us > 0

\* C6: a request from a context that cannot block returns ENOTSUP in the same
\* step, whatever the action, and changes neither the pin, nor next_boot, nor
\* the domain state, and notifies nobody.
C6_BlockingContextGuard ==
    [][\A action \in PmActions :
          (RequestStep(action) /\ ~req'.can_yield) =>
              /\ rc' = "ENOTSUP"
              /\ pc' = "idle"
              /\ pin' = pin
              /\ next_boot' = next_boot
              /\ dep_last' = dep_last
              /\ notify_log' = <<>>
              /\ pm_state' = pm_state]_vars

\* RESUME, in the state that permits it, was refused for its context alone
C6_Witness ==
    /\ pc = "idle"
    /\ rc = "ENOTSUP"
    /\ req.action = PM_DEVICE_ACTION_RESUME
    /\ ~req.can_yield
    /\ req.from = "DRIVEN_OFF"
    /\ pm_state = "DRIVEN_OFF"

\* what the fan-out of action delivers: each device once, in registration order
FanOutOf(action) == [i \in 1..NumDeps |-> [dev |-> i, action |-> action]]
Delivered == [i \in DOMAIN notify_log |->
                 [dev |-> notify_log[i].dev, action |-> notify_log[i].action]]

\* C7: a finished RESUME has delivered exactly one TURN_ON to each of the N
\* supported devices and a finished SUSPEND exactly one TURN_OFF to each, in
\* registration order.
C7_FanOutComplete ==
    /\ Finished(PM_DEVICE_ACTION_RESUME) =>
          Delivered = FanOutOf(PM_DEVICE_ACTION_TURN_ON)
    /\ Finished(PM_DEVICE_ACTION_SUSPEND) =>
          Delivered = FanOutOf(PM_DEVICE_ACTION_TURN_OFF)

\* a second RESUME has finished, after a SUSPEND
C7_Witness ==
    /\ Finished(PM_DEVICE_ACTION_RESUME)
    /\ hist.suspends > 0
    /\ Len(notify_log) = NumDeps

\* C8: between requests next_boot is the off-on delay after boot while no
\* SUSPEND has completed, and afterwards the off-on delay after the clock
\* reading of the most recent SUSPEND (delays counted in ticks, rounded up).
C8_DeadlineInvariant ==
    pc = "idle" =>
        next_boot = IF hist.suspends = 0
                    THEN 0 + k_us_to_ticks_ceil64(cfg.off_on_delay_us)
                    ELSE hist.suspend_at + k_us_to_ticks_ceil32(cfg.off_on_delay_us)

\* a second SUSPEND has completed, later than the boot seed, with a delay configured
C8_Witness ==
    /\ pc = "idle"
    /\ hist.suspends = 2
    /\ cfg.off_on_delay_us > 0
    /\ hist.suspend_at > k_us_to_ticks_ceil64(cfg.off_on_delay_us)

\* C9: while no SUSPEND has happened, the pin is not driven active before the
\* off-on delay has passed since boot, however early RESUME is requested.
C9_BootSeededCooldown ==
    (Ready /\ Energized(pin) /\ hist.suspends = 0) =>
        ticks_to_us(hist.pin_active_at) >= ticks_to_us(0) + cfg.off_on_delay_us

\* the first RESUME was requested before the boot deadline and has switched power on
C9_Witness ==
    /\ Ready
    /\ Energized(pin)
    /\ hist.suspends = 0
    /\ req.action = PM_DEVICE_ACTION_RESUME
    /\ cfg.off_on_delay_us > 0
    /\ ticks_to_us(req.at) < cfg.off_on_delay_us

\* C10: when pd_gpio_init has returned success the pin floats, it has never been
\* driven active, no supported device has been sent anything and the domain is
\* DISCONNECTED; whenever the pin has been driven active, a RESUME did it.
C10_InitDoesNotEnergize ==
    /\ (pc = "idle" /\ req.action = "INIT") =>
          /\ rc = "OK"
          /\ pin.mode = "DISCONNECTED"
          /\ ~hist.ever_active
          /\ \A d \in Deps : dep_last[d] = "NONE"
          /\ notify_log = <<>>
          /\ pm_state = "DISCONNECTED"
    /\ hist.ever_active => hist.active_by = PM_DEVICE_ACTION_RESUME

\* initialization succeeded on a pin whose reset default was driven active
C10_Witness ==
    /\ pc = "idle"
    /\ req.action = "INIT"
    /\ rc = "OK"
    /\ pin.mode = "DISCONNECTED"
    /\ pin.level = 1
    /\ now > 0


\* C11: if the enable pin's port is not ready pd_gpio_init returns ENODEV, and
\* if the port is ready but the parent domain is not it returns EINVAL; either
\* way it stops before any effect: the pin is not configured, next_boot is not
\* seeded, the handler is not run and the instance never becomes usable.  With
\* both not ready the answer is ENODEV: the port is checked first.
C11_InitDependencyCheck ==
    [][\A port_ready \in BOOLEAN, domain \in DomainStates :
          (pc = "boot" /\ pd_gpio_init(port_ready, domain)) =>
              /\ ~port_ready => rc' = "ENODEV"
              /\ (port_ready /\ domain = "NOT_READY") => rc' = "EINVAL"
              /\ (port_ready /\ domain # "NOT_READY") => (rc' = "OK" /\ pc' = "idle")
              /\ (~port_ready \/ domain = "NOT_READY") =>
                    /\ pc' = "failed"
                    /\ pin' = pin
                    /\ next_boot' = next_boot
                    /\ pm_state' = "UNINIT"
                    /\ hist' = hist
                    /\ notify_log' = <<>>
                    /\ dep_last' = dep_last]_vars

\* initialization was abandoned for the parent domain, some time after boot, on
\* a pin whose reset default is driven active and with a delay configured
C11_Witness ==
    /\ pc = "failed"
    /\ rc = "EINVAL"
    /\ now > 0
    /\ Energized(pin)
    /\ cfg.off_on_delay_us > 0
    /\ next_boot = 0


\* C12: TURN_OFF requested from a blockable context while the domain is
\* already DISCONNECTED returns success and leaves the domain DISCONNECTED, the
\* pin floating and exactly as it was, so a second TURN_OFF changes nothing
\* the first did not.
C12_TurnOffIdempotent ==
    [][(RequestStep(PM_DEVICE_ACTION_TURN_OFF) /\ req'.can_yield
          /\ pm_state = "DISCONNECTED") =>
              /\ rc' = "OK"
              /\ pc' = "idle"
              /\ pm_state' = "DISCONNECTED"
              /\ pin'.mode = "DISCONNECTED"
              /\ pin' = pin
              /\ next_boot' = next_boot
              /\ dep_last' = dep_last
              /\ hist' = hist
              /\ notify_log' = <<>>]_vars

\* TURN_OFF has been applied a second time, after a whole power cycle
C12_Witness ==
    /\ Finished(PM_DEVICE_ACTION_TURN_OFF)
    /\ req.from = "DISCONNECTED"
    /\ pm_state = "DISCONNECTED"
    /\ hist.suspends > 0

\* C14: an action value other than RESUME, SUSPEND, TURN_ON and TURN_OFF
\* returns ENOTSUP in every state and leaves the pin, next_boot, the domain
\* state and the supported devices untouched.
C14_UnrecognizedAction ==
    [][RequestStep(PM_DEVICE_ACTION_OTHER) =>
          /\ rc' = "ENOTSUP"
          /\ pc' = "idle"
          /\ pin' = pin
          /\ next_boot' = next_boot
          /\ pm_state' = pm_state
          /\ dep_last' = dep_last
          /\ hist' = hist
          /\ notify_log' = <<>>]_vars

\* an unknown action was refused from a blockable context while the rail was on
C14_Witness ==
    /\ pc = "idle"
    /\ rc = "ENOTSUP"
    /\ req.action = PM_DEVICE_ACTION_OTHER
    /\ req.can_yield
    /\ pm_state = "ON"
    /\ Energized(pin)


\* C13: a RESUME requested at or after next_boot does not wait for the
\* cooldown: the sleep on the passed deadline returns at once, so the pin can
\* be driven active in the very tick of the request.
C13_NoExcessCooldown ==
    /\ (pc = "resume_cooldown" /\ req.at >= next_boot) => ENABLED ResumeSwitchOn
    /\ (pc = "resume_cooldown" /\ now >= next_boot) => ENABLED ResumeSwitchOn

\* after a SUSPEND with a delay configured, RESUME came later than the deadline
\* and the pin went active in the tick of the request
C13_Witness ==
    /\ Energized(pin)
    /\ req.action = PM_DEVICE_ACTION_RESUME
    /\ hist.suspends > 0
    /\ cfg.off_on_delay_us > 0
    /\ req.at > next_boot
    /\ hist.pin_active_at = req.at


\* some supported device's handler failed on a notification of the current request
SomeChildFailed == \E i \in DOMAIN notify_log : ~notify_log[i].ok

\* C15: when a supported device's handler fails on TURN_ON or TURN_OFF the
\* handler does not stop: once it is back, every device has been notified, the
\* call has returned success, and a SUSPEND has driven the pin inactive and
\* stored its deadline (a RESUME has left the pin active).
C15_BestEffortFanOut ==
    (pc = "idle" /\ SomeChildFailed) =>
        /\ rc = "OK"
        /\ req.action \in {PM_DEVICE_ACTION_RESUME, PM_DEVICE_ACTION_SUSPEND}
        /\ Len(notify_log) = NumDeps
        /\ \A d \in Deps : \E i \in DOMAIN notify_log : notify_log[i].dev = d
        /\ req.action = PM_DEVICE_ACTION_SUSPEND =>
              /\ ~Energized(pin)
              /\ pin.mode = "OUTPUT"
              /\ pm_state = "DRIVEN_OFF"
              /\ hist.suspend_at >= req.at
              /\ next_boot = hist.suspend_at + k_us_to_ticks_ceil32(cfg.off_on_delay_us)
        /\ req.action = PM_DEVICE_ACTION_RESUME =>
              /\ Energized(pin)
              /\ pm_state = "ON"

\* a SUSPEND has returned although the first device it notified had failed
C15_Witness ==
    /\ Finished(PM_DEVICE_ACTION_SUSPEND)
    /\ Len(notify_log) = NumDeps
    /\ ~notify_log[1].ok
    /\ cfg.off_on_delay_us > 0


\* The scheduling the kernel gives: the clock keeps ticking, a thread whose
\* sleep has expired runs again, and every supported device's handler returns.
LiveSpec ==
    /\ Init
    /\ [][Next]_vars
    /\ WF_vars(Tick)
    /\ WF_vars(ResumeSwitchOn)
    /\ WF_vars(ResumeNotify)
    /\ WF_vars(ResumeReturn)

\* RESUME has returned success: pin active, every device told TURN_ON, state ON
ResumeDone ==
    /\ Finished(PM_DEVICE_ACTION_RESUME)
    /\ Energized(pin)
    /\ pm_state = "ON"
    /\ \A d \in Deps : dep_last[d] = PM_DEVICE_ACTION_TURN_ON
    /\ Len(notify_log) = NumDeps

\* the explored clock has run out while RESUME sleeps on a deadline beyond it
ResumeBeyondClock ==
    /\ now = MaxTime
    /\ \/ pc = "resume_cooldown" /\ next_boot > now
       \/ pc = "resume_startup" /\ wake_at > now

\* C16: a RESUME accepted from a blockable context in DRIVEN_OFF has no way out
\* but its return: as long as the clock advances and the supported devices'
\* handlers return, it eventually returns success with the pin active, every
\* device notified TURN_ON and the domain ON.
C16_ResumeTerminates ==
    (pc = "resume_cooldown") ~> (ResumeDone \/ ResumeBeyondClock)

\* a RESUME that had to wait out both the cooldown and the settle time has returned
C16_Witness ==
    /\ ResumeDone
    /\ hist.pin_active_at > req.at
    /\ notify_log[1].at > hist.pin_active_at
    /\ now < MaxTime


\* C17: after initialization next_boot is written only by SUSPEND, in the one
\* step that ends it; every other step of SUSPEND, every step of RESUME and
\* every TURN_ON, TURN_OFF, unknown or rejected request leaves it as it is.
C17_DeadlineSingleWriter ==
    [][pc # "boot" =>
          /\ next_boot' # next_boot =>
                /\ pc = "suspend_store"
                /\ req.action = PM_DEVICE_ACTION_SUSPEND
                /\ pc' = "idle"
                /\ rc' = "OK"
          /\ (pc = "suspend_store" /\ pc' # pc) =>
                /\ pc' = "idle"
                /\ next_boot' = now + k_us_to_ticks_ceil32(cfg.off_on_delay_us)
          /\ (pc # "suspend_store" /\ pc' = "suspend_store") =>
                /\ pc = "suspend_notify"
                /\ next_boot' = next_boot]_vars

\* a RESUME that came after a SUSPEND has returned and the deadline the
\* SUSPEND stored is still there
C17_Witness ==
    /\ Finished(PM_DEVICE_ACTION_RESUME)
    /\ hist.suspends > 0
    /\ cfg.off_on_delay_us > 0
    /\ next_boot = hist.suspend_at + k_us_to_ticks_ceil32(cfg.off_on_delay_us)
    /\ hist.pin_active_at >= next_boot


\* C18: TURN_ON and TURN_OFF only reconfigure the pin.  An accepted TURN_ON
\* leaves it a driven output at the inactive level, with the high-drive flag
\* exactly when enable_high_drive is set; an accepted TURN_OFF leaves it
\* disconnected.  Neither sets the active level, waits on the clock, touches
\* next_boot or notifies a supported device; devices are notified only inside
\* RESUME and SUSPEND.
C18_ConfigureOnly ==
    [][/\ \A action \in {PM_DEVICE_ACTION_TURN_ON, PM_DEVICE_ACTION_TURN_OFF} :
             RequestStep(action) =>
                /\ pc' = "idle"
                /\ now' = now
                /\ next_boot' = next_boot
                /\ notify_log' = <<>>
                /\ dep_last' = dep_last
                /\ pin'.level = 1 => pin' = pin
                /\ hist'.ever_active = hist.ever_active
                /\ (rc' = "OK" /\ action = PM_DEVICE_ACTION_TURN_ON) =>
                      pin' = [mode   |-> "OUTPUT",
                              level  |-> 0,
                              ds_alt |-> cfg.enable_high_drive]
                /\ (rc' = "OK" /\ action = PM_DEVICE_ACTION_TURN_OFF) =>
                      pin' = [mode   |-> "DISCONNECTED",
                              level  |-> pin.level,
                              ds_alt |-> FALSE]
                /\ rc' # "OK" => pin' = pin
       /\ (dep_last' # dep_last \/ Len(notify_log') > Len(notify_log)) =>
             /\ req.action \in {PM_DEVICE_ACTION_RESUME, PM_DEVICE_ACTION_SUSPEND}
             /\ pc \in {"resume_startup", "suspend_notify"}]_vars

\* TURN_ON has configured the pin with the high-drive flag, after a whole cycle
C18_Witness ==
    /\ Finished(PM_DEVICE_ACTION_TURN_ON)
    /\ cfg.enable_high_drive
    /\ pin.ds_alt
    /\ pin.mode = "OUTPUT"
    /\ hist.suspends > 0


\* C19: in every state, the steps inside RESUME and SUSPEND included, a
\* supported device whose latest notification is TURN_ON finds the enable pin
\* a driven output at the active level; so while the pin is inactive or
\* floating no device has been told TURN_ON since its last TURN_OFF.
C19_NoFalsePower ==
    /\ \A d \in Deps :
          dep_last[d] = PM_DEVICE_ACTION_TURN_ON =>
              (pin.mode = "OUTPUT" /\ pin.level = 1)
    /\ (Ready /\ ~Energized(pin)) =>
          \A d \in Deps : dep_last[d] \in {"NONE", PM_DEVICE_ACTION_TURN_OFF}

\* in the middle of a SUSPEND: the first device told TURN_OFF, the last one
\* still on, the pin still active
C19_Witness ==
    /\ pc = "suspend_notify"
    /\ dep_last[1] = PM_DEVICE_ACTION_TURN_OFF
    /\ dep_last[NumDeps] = PM_DEVICE_ACTION_TURN_ON
    /\ Energized(pin)


(* ------------------ the deadline arithmetic at full width ---------------- *)

\* off_on_delay_us is a uint32_t, the converted tick count a uint32_t and the
\* deadline an int64_t. Values of that width are held as little-endian byte
\* sequences: four bytes for 32 bits, eight for 64.

RECURSIVE ToBytes(_, _)
ToBytes(n, len) ==
    IF len = 0 THEN <<>> ELSE <<n % 256>> \o ToBytes(n \div 256, len - 1)

Pad(a, len) == [i \in 1..len |-> IF i <= Len(a) THEN a[i] ELSE 0]

\* a * k + carry for a small k, four bytes wider than a
RECURSIVE MulSmall(_, _, _)
MulSmall(a, k, carry) ==
    IF a = <<>>
    THEN ToBytes(carry, 4)
    ELSE LET v == Head(a) * k + carry
         IN  <<v % 256>> \o MulSmall(Tail(a), k, v \div 256)

\* a + k in the width of a
RECURSIVE AddSmall(_, _)
AddSmall(a, k) ==
    IF a = <<>>
    THEN <<>>
    ELSE LET v == Head(a) + k
         IN  <<v % 256>> \o AddSmall(Tail(a), v \div 256)

\* a + b + carry in the width of a, for b as wide as a
RECURSIVE AddBytes(_, _, _)
AddBytes(a, b, carry) ==
    IF a = <<>>
    THEN <<>>
    ELSE LET v == Head(a) + Head(b) + carry
         IN  <<v % 256>> \o AddBytes(Tail(a), Tail(b), v \div 256)

\* bytes 1..i of a \div d, long division from the top byte with remainder r
RECURSIVE DivFrom(_, _, _, _)
DivFrom(a, d, i, r) ==
    IF i = 0
    THEN <<>>
    ELSE LET cur == r * 256 + a[i]
         IN  DivFrom(a, d, i - 1, cur % d) \o <<cur \div d>>

DivSmall(a, d) == DivFrom(a, d, Len(a), 0)

RECURSIVE GeqFrom(_, _, _)
GeqFrom(a, b, i) ==
    IF i = 0 THEN TRUE
    ELSE IF a[i] # b[i] THEN a[i] > b[i]
    ELSE GeqFrom(a, b, i - 1)

\* a >= b as unsigned numbers
BytesGeq(a, b) ==
    LET n == IF Len(a) >= Len(b) THEN Len(a) ELSE Len(b)
    IN  GeqFrom(Pad(a, n), Pad(b, n), n)

\* the conversion at a tick rate of hz, computed in 64 bits: ceil(us * hz / 1e6)
k_us_to_ticks_ceil64_wide(us, hz) ==
    SubSeq(DivSmall(AddSmall(MulSmall(us, hz, 0), USEC_PER_SEC - 1), USEC_PER_SEC), 1, 8)

\* k_us_to_ticks_ceil32 returns a uint32_t: the low 32 bits of that result
k_us_to_ticks_ceil32_wide(us, hz) ==
    SubSeq(k_us_to_ticks_ceil64_wide(us, hz), 1, 4)


\* 32-bit values of off_on_delay_us: both ends of the range, the values around
\* the top bit, and small ones
ConvDelays ==
    { ToBytes(us, 4) : us \in {0, 1, 50, USEC_PER_SEC} }
        \cup { <<255, 255, 255, 127>>, <<0, 0, 0, 128>>, <<255, 255, 255, 255>> }

\* values of CONFIG_SYS_CLOCK_TICKS_PER_SEC, below, at and above one tick per
\* microsecond
ConvTickRates == {100, CONFIG_SYS_CLOCK_TICKS_PER_SEC, 32768, USEC_PER_SEC, 2 * USEC_PER_SEC}

\* power cycles followed
MaxCycles == 2

\* The deadline arithmetic of the driver on its own, at full width: cfg holds
\* the delay as a 32-bit value and the tick rate of the build, now and
\* next_boot are 64-bit tick counts, hist.suspend_at is the clock reading
\* taken in SUSPEND.
ConvInit ==
    /\ cfg \in [off_on_delay_us : ConvDelays, ticks_per_sec : ConvTickRates]
    /\ next_boot = ToBytes(0, 8)
    /\ now = ToBytes(0, 8)
    /\ pc = "conv_boot"
    /\ pin = [mode |-> "DISCONNECTED", level |-> 0, ds_alt |-> FALSE]
    /\ pm_state = "UNINIT"
    /\ child_idx = 1
    /\ wake_at = 0
    /\ req = [action |-> "NONE", can_yield |-> TRUE, at |-> 0, from |-> "UNINIT"]
    /\ rc = "NONE"
    /\ notify_log = <<>>
    /\ dep_last = [d \in Deps |-> "NONE"]
    /\ hist = [pin_active_at   |-> NoTime,
               pin_inactive_at |-> NoTime,
               suspend_at      |-> NoTime,
               suspends        |-> 0,
               ever_active     |-> FALSE,
               active_by       |-> "NONE"]

\* pd_gpio_init: data->next_boot = K_TIMEOUT_ABS_US(cfg->off_on_delay_us),
\* converted in 64 bits
ConvSeed ==
    /\ pc = "conv_boot"
    /\ next_boot' = k_us_to_ticks_ceil64_wide(cfg.off_on_delay_us, cfg.ticks_per_sec)
    /\ pm_state' = "OFF"
    /\ pc' = "conv_idle"
    /\ UNCHANGED <<cfg, pin, now, child_idx, wake_at, req, rc, notify_log,
                   dep_last, hist>>

\* RESUME: k_sleep(data->next_boot) returns at the deadline, or at once when
\* the deadline has passed
ConvResume ==
    /\ pc = "conv_idle"
    /\ pm_state = "OFF"
    /\ now' = IF BytesGeq(now, next_boot) THEN now ELSE next_boot
    /\ pm_state' = "ON"
    /\ UNCHANGED <<cfg, next_boot, pin, pc, child_idx, wake_at, req, rc,
                   notify_log, dep_last, hist>>

\* SUSPEND: next_boot_ticks = k_uptime_ticks() +
\* k_us_to_ticks_ceil32(cfg->off_on_delay_us), the sum taken in 64 bits
ConvSuspendStore ==
    /\ pc = "conv_idle"
    /\ pm_state = "ON"
    /\ hist.suspends < MaxCycles
    /\ next_boot' = AddBytes(now,
                             Pad(k_us_to_ticks_ceil32_wide(cfg.off_on_delay_us,
                                                           cfg.ticks_per_sec), 8),
                             0)
    /\ hist' = [hist EXCEPT !.suspend_at = now, !.suspends = @ + 1]
    /\ pm_state' = "OFF"
    /\ UNCHANGED <<cfg, pin, now, pc, child_idx, wake_at, req, rc, notify_log,
                   dep_last>>

\* one tick passes; wake_at counts the ticks that passed outside k_sleep
ConvTick ==
    /\ wake_at < MaxTime
    /\ now' = AddSmall(now, 1)
    /\ wake_at' = wake_at + 1
    /\ UNCHANGED <<cfg, next_boot, pin, pm_state, pc, child_idx, req, rc,
                   notify_log, dep_last, hist>>

ConvNext ==
    \/ ConvSeed
    \/ ConvResume
    \/ ConvSuspendStore
    \/ ConvTick

ConvSpec == ConvInit /\ [][ConvNext]_vars

\* the delay of the configuration, in microseconds times ticks per second
ConvDelayScaled == MulSmall(cfg.off_on_delay_us, cfg.ticks_per_sec, 0)

\* a deadline of SUSPEND is stored
ConvStored == pc = "conv_idle" /\ hist.suspends > 0

\* the boot seed is stored and no SUSPEND has replaced it
ConvSeeded == pc = "conv_idle" /\ hist.suspends = 0

\* C20: deadline rounding never shortens the cooldown. At every tick rate and
\* for every 32-bit off_on_delay_us, the deadline stored by SUSPEND is the
\* clock reading plus the delay converted to ticks rounded up, without
\* wrap-around of the 32-bit conversion or of the 64-bit sum, so that the
\* deadline converted back to time is at least the delay after the reading;
\* the boot seed rounds up in the same way.
C20_RoundingNeverShortens ==
    /\ ConvStored =>
          /\ next_boot = AddBytes(hist.suspend_at,
                                  k_us_to_ticks_ceil64_wide(cfg.off_on_delay_us,
                                                            cfg.ticks_per_sec),
                                  0)
          /\ BytesGeq(next_boot, hist.suspend_at)
          /\ BytesGeq(MulSmall(next_boot, USEC_PER_SEC, 0),
                      AddBytes(MulSmall(hist.suspend_at, USEC_PER_SEC, 0),
                               Pad(ConvDelayScaled, 12),
                               0))
    /\ ConvSeeded =>
          BytesGeq(MulSmall(next_boot, USEC_PER_SEC, 0), ConvDelayScaled)


\* at two ticks per microsecond a delay of 2^31 microseconds converts to 2^32
\* ticks, whose low 32 bits are zero: the deadline stored by SUSPEND is the
\* clock reading itself
C20_Witness ==
    /\ ConvStored
    /\ cfg.ticks_per_sec = 2 * USEC_PER_SEC
    /\ cfg.off_on_delay_us = <<0, 0, 0, 128>>
    /\ next_boot = hist.suspend_at

====
